---------------------------- MODULE Spec2Model ----------------------------
(***************************************************************************)
(* Force-field evaluation of MechAFM (src/src/interactions.cpp): the        *)
(* interaction kernels, which add forces and energies into shared           *)
(* accumulators, and the constructor of ElectrostaticPotentialInteraction,  *)
(* which builds the tip charge lattice and the wavenumber tables.           *)
(*                                                                         *)
(* The C++ type double is modelled as a binary floating-point format with   *)
(* MantBits significant bits (53 in IEEE double), exponents EMin..EMax,     *)
(* round-to-nearest-even, gradual underflow, +Inf, -Inf and NaN.  Every     *)
(* arithmetic operation of the source is one rounded operation here.  The   *)
(* sign of zero is not modelled (x/0 is +Inf for x > 0).                    *)
(***************************************************************************)
EXTENDS Integers, Sequences, FiniteSets, TLC

(***************************************************************************)
(* The format of double.                                                   *)
(***************************************************************************)
MantBits == 8
ESub == 90
EMin == -ESub
EMax == 60

Max(a, b) == IF a >= b THEN a ELSE b
Min(a, b) == IF a <= b THEN a ELSE b
Abs(a) == IF a < 0 THEN -a ELSE a
Sgn(a) == IF a < 0 THEN -1 ELSE IF a > 0 THEN 1 ELSE 0

RECURSIVE BitLen(_)
BitLen(n) == IF n = 0 THEN 0 ELSE 1 + BitLen(n \div 2)

\* A finite value is m * 2^e with m odd (or m = 0, e = 0); k tells the
\* finite values from the infinities (m = 1, -1) and NaN.
Fin(m, e) == [k |-> "fin", m |-> m, e |-> e]
Zero == Fin(0, 0)
NaN == [k |-> "nan", m |-> 0, e |-> 0]
PInf == [k |-> "inf", m |-> 1, e |-> 0]
NInf == [k |-> "inf", m |-> -1, e |-> 0]
Inf(s) == IF s < 0 THEN NInf ELSE PInf

IsNaN(x) == x.k = "nan"
IsInf(x) == x.k = "inf"
IsFinite(x) == x.k = "fin"
IsZero(x) == x.k = "fin" /\ x.m = 0

RECURSIVE Norm(_, _)
Norm(m, e) ==
    IF m = 0 THEN Zero
    ELSE IF m % 2 = 0 THEN Norm(m \div 2, e + 1)
    ELSE Fin(m, e)

\* sign * r * 2^e, with r already cut to the width of the format.
RoundFin(sign, r, e) ==
    IF r = 0 THEN Zero
    ELSE IF BitLen(r) + e - 1 > EMax THEN Inf(sign)
    ELSE Norm(sign * r, e)

\* q is a with its last bits dropped, rem the bits dropped, half the weight
\* of the first of them: to nearest, ties to even.
RoundUp(sign, q, rem, half, e, sticky) ==
    RoundFin(sign,
             IF rem > half \/ (rem = half /\ (sticky \/ q % 2 = 1))
             THEN q + 1 ELSE q,
             e)

RoundCut(sign, a, e, sticky, L, drop) ==
    IF drop = 0 THEN RoundFin(sign, a, e)
    ELSE IF drop > L + 1 THEN Zero
    ELSE RoundUp(sign, a \div (2 ^ drop), a % (2 ^ drop), 2 ^ (drop - 1),
                 e + drop, sticky)

RoundLen(sign, a, e, sticky, L) ==
    RoundCut(sign, a, e, sticky, L, Max(Max(L - MantBits, EMin - e), 0))

\* sign * a * 2^e (a >= 0, and sticky when bits below a's last were lost)
\* rounded to the format: to nearest, ties to even.
RoundME(sign, a, e, sticky) == RoundLen(sign, a, e, sticky, BitLen(a))

\* s * 2^e rounded to the format.
RoundInt(s, e) == RoundME(Sgn(s), Abs(s), e, FALSE)

\* An int converted to double.
FInt(n) == RoundInt(n, 0)

FNeg(x) == IF x.k = "nan" THEN NaN ELSE [x EXCEPT !.m = -x.m]

FAdd(x, y) ==
    IF IsNaN(x) \/ IsNaN(y) THEN NaN
    ELSE IF IsInf(x) THEN (IF IsInf(y) /\ y.m # x.m THEN NaN ELSE x)
    ELSE IF IsInf(y) THEN y
    ELSE IF x.m = 0 THEN y
    ELSE IF y.m = 0 THEN x
    ELSE LET hi == IF x.e >= y.e THEN x ELSE y
             lo == IF x.e >= y.e THEN y ELSE x
         IN  IF hi.e - lo.e >= 2 * MantBits + 1 THEN hi
             ELSE RoundInt(hi.m * (2 ^ (hi.e - lo.e)) + lo.m, lo.e)

FSub(x, y) == FAdd(x, FNeg(y))

FMul(x, y) ==
    IF IsNaN(x) \/ IsNaN(y) THEN NaN
    ELSE IF IsInf(x) \/ IsInf(y)
         THEN (IF x.m = 0 \/ y.m = 0 THEN NaN ELSE Inf(Sgn(x.m) * Sgn(y.m)))
    ELSE RoundInt(x.m * y.m, x.e + y.e)

FDiv(x, y) ==
    IF IsNaN(x) \/ IsNaN(y) THEN NaN
    ELSE IF IsInf(x) THEN (IF IsInf(y) THEN NaN
                           ELSE Inf(x.m * (IF y.m < 0 THEN -1 ELSE 1)))
    ELSE IF IsInf(y) THEN Zero
    ELSE IF y.m = 0 THEN (IF x.m = 0 THEN NaN ELSE Inf(Sgn(x.m)))
    ELSE IF x.m = 0 THEN Zero
    ELSE LET s == 2 * MantBits + 2
             n == Abs(x.m) * (2 ^ s)
         IN  RoundME(Sgn(x.m) * Sgn(y.m), n \div Abs(y.m), x.e - y.e - s,
                     n % Abs(y.m) # 0)

\* The comparisons of double: every comparison with NaN is false.
FLt(x, y) ==
    IF IsNaN(x) \/ IsNaN(y) THEN FALSE
    ELSE IF IsInf(x) THEN x.m < 0 /\ ~(IsInf(y) /\ y.m < 0)
    ELSE IF IsInf(y) THEN y.m > 0
    ELSE FSub(x, y).m < 0
FGt(x, y) == FLt(y, x)
FLe(x, y) == ~IsNaN(x) /\ ~IsNaN(y) /\ ~FLt(y, x)

\* The largest r with r * r <= n, found bit by bit from 2^b downwards.
RECURSIVE ISqrtFrom(_, _, _)
ISqrtFrom(n, r, b) ==
    IF b < 0 THEN r
    ELSE LET t == r + 2 ^ b
         IN  ISqrtFrom(n, IF t * t <= n THEN t ELSE r, b - 1)
ISqrt(n) == ISqrtFrom(n, 0, 14)

\* r = isqrt(n), as a double scaled by 2^e.
SqrtRound(r, n, e) == RoundME(1, r, e, r * r # n)

\* sqrt of <cmath>.
FSqrt(x) ==
    IF IsNaN(x) THEN NaN
    ELSE IF x.m < 0 THEN NaN
    ELSE IF IsInf(x) THEN PInf
    ELSE IF x.m = 0 THEN Zero
    ELSE LET t == IF x.e % 2 = 0 THEN 2 * MantBits + 2 ELSE 2 * MantBits + 3
         IN  SqrtRound(ISqrt(x.m * (2 ^ t)), x.m * (2 ^ t), (x.e - t) \div 2)

\* A double literal n/d of the source, rounded to the format.
FRat(n, d) == FDiv(FInt(n), FInt(d))

\* floor(x) as an int, for a finite x of moderate size.
FFloor(x) == IF x.e >= 0 THEN x.m * (2 ^ x.e) ELSE x.m \div (2 ^ (-x.e))

(***************************************************************************)
(* <cmath>: exp, acos, sin, atan and pow, each computed in the format by   *)
(* a short polynomial, so each result carries a rounding error of a few    *)
(* units in the last place, as the library's does.                          *)
(***************************************************************************)
PI == FRat(355, 113)

RECURSIVE SquareN(_, _)
SquareN(v, j) == IF j = 0 THEN v ELSE SquareN(FMul(v, v), j - 1)

\* 1 + y(1 + y/2(1 + y/3(1 + y/4(1 + y/5(1 + y/6))))), for |y| <= 1/2
ExpSmall(y) ==
    LET t6 == FAdd(FInt(1), FDiv(y, FInt(6)))
        t5 == FAdd(FInt(1), FMul(FDiv(y, FInt(5)), t6))
        t4 == FAdd(FInt(1), FMul(FDiv(y, FInt(4)), t5))
        t3 == FAdd(FInt(1), FMul(FDiv(y, FInt(3)), t4))
        t2 == FAdd(FInt(1), FMul(FDiv(y, FInt(2)), t3))
    IN  FAdd(FInt(1), FMul(y, t2))

\* exp(x) = exp(x / 2^j)^(2^j) with |x / 2^j| <= 1/2
Exp(x) ==
    IF IsNaN(x) THEN NaN
    ELSE IF IsInf(x) THEN (IF x.m > 0 THEN PInf ELSE Zero)
    ELSE IF x.m = 0 THEN FInt(1)
    ELSE LET j == Max(BitLen(Abs(x.m)) + x.e + 1, 0)
         IN  IF j > 40 THEN (IF x.m > 0 THEN PInf ELSE Zero)
             ELSE SquareN(ExpSmall(Fin(x.m, x.e - j)), j)

Pow2(x) == FMul(x, x)
Pow3(x) == FMul(FMul(x, x), x)

\* acos(x) = sqrt(1 - x) * (a0 + a1 x + a2 x^2 + a3 x^3) on [0, 1], and
\* pi - acos(-x) on [-1, 0); outside [-1, 1] a domain error: NaN.
AcosPos(x) ==
    LET a0 == FRat(15707288, 10000000)
        a1 == FRat(-2121144, 10000000)
        a2 == FRat(742610, 10000000)
        a3 == FRat(-187293, 10000000)
        p == FAdd(a0, FMul(x, FAdd(a1, FMul(x, FAdd(a2, FMul(x, a3))))))
    IN  FMul(FSqrt(FSub(FInt(1), x)), p)

Acos(x) ==
    IF IsNaN(x) THEN NaN
    ELSE IF FGt(x, FInt(1)) \/ FLt(x, FInt(-1)) THEN NaN
    ELSE IF x.m >= 0 THEN AcosPos(x)
    ELSE FSub(PI, AcosPos(FNeg(x)))

\* sin(x) = x(1 - x^2/6(1 - x^2/20(1 - x^2/42(1 - x^2/72(1 - x^2/110)))))
Sin(x) ==
    IF ~IsFinite(x) THEN NaN
    ELSE LET x2 == FMul(x, x)
             t5 == FSub(FInt(1), FDiv(x2, FInt(110)))
             t4 == FSub(FInt(1), FMul(FDiv(x2, FInt(72)), t5))
             t3 == FSub(FInt(1), FMul(FDiv(x2, FInt(42)), t4))
             t2 == FSub(FInt(1), FMul(FDiv(x2, FInt(20)), t3))
             t1 == FSub(FInt(1), FMul(FDiv(x2, FInt(6)), t2))
         IN  FMul(x, t1)

\* atan(x) = x / (1 + 0.28 x^2) for |x| <= 1, else +-pi/2 - x / (x^2 + 0.28)
Atan(x) ==
    IF IsNaN(x) THEN NaN
    ELSE IF IsInf(x) THEN FDiv(FMul(FInt(x.m), PI), FInt(2))
    ELSE LET x2 == FMul(x, x)
             c == FRat(28, 100)
         IN  IF FLe(x2, FInt(1)) THEN FDiv(x, FAdd(FInt(1), FMul(c, x2)))
             ELSE FSub(FDiv(FMul(FInt(Sgn(x.m)), PI), FInt(2)),
                       FDiv(x, FAdd(x2, c)))

(***************************************************************************)
(* Vec3d and Vec2d (vectors.hpp): componentwise arithmetic on doubles.     *)
(* A Vec2d is kept as a Vec3d whose z is 0.                                *)
(***************************************************************************)
Vec3d(x, y, z) == [x |-> x, y |-> y, z |-> z]
Vec3i(x, y, z) == Vec3d(FInt(x), FInt(y), FInt(z))
ZeroVec == Vec3d(Zero, Zero, Zero)
VAdd(a, b) == Vec3d(FAdd(a.x, b.x), FAdd(a.y, b.y), FAdd(a.z, b.z))
VSub(a, b) == Vec3d(FSub(a.x, b.x), FSub(a.y, b.y), FSub(a.z, b.z))
VNeg(a) == Vec3d(FNeg(a.x), FNeg(a.y), FNeg(a.z))
VScale(s, a) == Vec3d(FMul(s, a.x), FMul(s, a.y), FMul(s, a.z))
VDiv(a, s) == Vec3d(FDiv(a.x, s), FDiv(a.y, s), FDiv(a.z, s))
dot(a, b) == FAdd(FAdd(FMul(a.x, b.x), FMul(a.y, b.y)), FMul(a.z, b.z))
cross(a, b) == Vec3d(FSub(FMul(a.y, b.z), FMul(a.z, b.y)),
                     FSub(FMul(a.z, b.x), FMul(a.x, b.z)),
                     FSub(FMul(a.x, b.y), FMul(a.y, b.x)))
lensqr(a) == dot(a, a)
len(a) == FSqrt(lensqr(a))
getXY(a) == Vec3d(a.x, a.y, Zero)
len2d(a) == FSqrt(FAdd(FMul(a.x, a.x), FMul(a.y, a.y)))
VFinite(a) == IsFinite(a.x) /\ IsFinite(a.y) /\ IsFinite(a.z)

(***************************************************************************)
(* The kernels.  Each operator is one eval of interactions.cpp: from the   *)
(* interaction it (its members), the positions and the accumulators it     *)
(* gives the accumulators after the call.  In [a EXCEPT ![i] = .., ![j] =  *)
(* ..] the updates apply in order, as the statements of the source do.     *)
(***************************************************************************)
Atoms == 0 .. 3

\* TOLERANCE of globals.hpp, 2^-33: about 1e-10.
TOLERANCE == Fin(1, -33)

ZeroForces == [i \in Atoms |-> ZeroVec]
ZeroEnergies == [i \in Atoms |-> Zero]

Acc(f, e) == [forces |-> f, energies |-> e]

\* A local of the source that later statements read more than once is the
\* parameter of the operator that models those statements, so an eval
\* reads as a chain: X_eval, then X_<local> for the statements after
\* <local> is known.

\* AddPair with the sign of the second force update lost.
AddPair_same_sign(it, forces, energies, t) ==
    Acc([forces EXCEPT ![it.atom_i1] = VAdd(@, t.f),
                       ![it.atom_i2] = VAdd(@, t.f)],
        [energies EXCEPT ![it.atom_i1] = FAdd(@, t.e),
                         ![it.atom_i2] = FAdd(@, t.e)])

\* AddPair sharing the pair energy, half to each particle.
AddPair_half(it, forces, energies, t) ==
    Acc([forces EXCEPT ![it.atom_i1] = VAdd(@, t.f),
                       ![it.atom_i2] = VSub(@, t.f)],
        [energies EXCEPT ![it.atom_i1] = FAdd(@, FDiv(t.e, FInt(2))),
                         ![it.atom_i2] = FAdd(@, FDiv(t.e, FInt(2)))])

\* The accumulation of a two-body eval (lines 21-24, 34-37, 45-48,
\* 227-230, 267-270): e to both energies, f to one force, -f to the other.
AddPair(it, forces, energies, t) ==
    Acc([forces EXCEPT ![it.atom_i1] = VAdd(@, t.f),
                       ![it.atom_i2] = VSub(@, t.f)],
        [energies EXCEPT ![it.atom_i1] = FAdd(@, t.e),
                         ![it.atom_i2] = FAdd(@, t.e)])

\* X_terms: the locals e and f of a two-body eval.
LJ_r6(it, r_vec, r_sqr, r6) ==
    LET term_a == FDiv(it.es12, FMul(r6, r6))
        term_b == FDiv(it.es6, r6)
    IN  [e |-> FSub(term_a, term_b),
         f |-> VScale(FDiv(FSub(FMul(FInt(12), term_a), FMul(FInt(6), term_b)),
                           r_sqr), r_vec)]

LJ_r_sqr(it, r_vec, r_sqr) ==
    LJ_r6(it, r_vec, r_sqr, FMul(FMul(r_sqr, r_sqr), r_sqr))

LJ_r_vec(it, r_vec) == LJ_r_sqr(it, r_vec, lensqr(r_vec))

LJ_terms(it, positions) ==
    LJ_r_vec(it, VSub(positions[it.atom_i1], positions[it.atom_i2]))

LJ_eval(it, positions, forces, energies) ==
    AddPair(it, forces, energies, LJ_terms(it, positions))

Morse_d_exp(it, r_vec, r, d_exp) ==
    LET f_abs == FMul(FMul(FMul(FInt(2), it.de), it.a), FSub(Pow2(d_exp), d_exp))
    IN  [e |-> FMul(it.de, FAdd(FSub(Pow2(d_exp), FMul(FInt(2), d_exp)), FInt(1))),
         f |-> VScale(FDiv(f_abs, r), r_vec)]

Morse_r(it, r_vec, r) ==
    Morse_d_exp(it, r_vec, r, Exp(FMul(FNeg(it.a), FSub(r, it.re))))

Morse_r_vec(it, r_vec) == Morse_r(it, r_vec, len(r_vec))

Morse_terms(it, positions) ==
    Morse_r_vec(it, VSub(positions[it.atom_i1], positions[it.atom_i2]))

Morse_eval(it, positions, forces, energies) ==
    AddPair(it, forces, energies, Morse_terms(it, positions))

Coulomb_r(it, r_vec, r) ==
    [e |-> FDiv(it.qq, r),
     f |-> VScale(FDiv(it.qq, FMul(FMul(r, r), r)), r_vec)]

Coulomb_r_vec(it, r_vec) == Coulomb_r(it, r_vec, len(r_vec))

Coulomb_terms(it, positions) ==
    Coulomb_r_vec(it, VSub(positions[it.atom_i1], positions[it.atom_i2]))

Coulomb_eval(it, positions, forces, energies) ==
    AddPair(it, forces, energies, Coulomb_terms(it, positions))

TipHarmonic_dr(it, r_2d, r, dr) ==
    [e |-> FMul(FMul(it.k, dr), dr),
     f |-> IF FGt(r, TOLERANCE)
           THEN getXY(VScale(FDiv(FMul(FMul(FInt(-2), it.k), dr), r), r_2d))
           ELSE ZeroVec]

TipHarmonic_r(it, r_2d, r) == TipHarmonic_dr(it, r_2d, r, FSub(r, it.r0))

TipHarmonic_r_2d(it, r_2d) == TipHarmonic_r(it, r_2d, len2d(r_2d))

TipHarmonic_terms(it, positions) ==
    TipHarmonic_r_2d(it, getXY(VSub(positions[it.atom_i1], positions[it.atom_i2])))

TipHarmonic_eval(it, positions, forces, energies) ==
    AddPair(it, forces, energies, TipHarmonic_terms(it, positions))

\* XYHarmonic_r assigning e and f to the accumulators instead of adding.
XYHarmonic_r_assign(it, forces, energies, r_2d, r) ==
    LET e == FMul(FMul(it.k, r), r)
        f == IF FGt(r, TOLERANCE)
             THEN getXY(VScale(FMul(FInt(-2), it.k), r_2d))
             ELSE ZeroVec
    IN  Acc([forces EXCEPT ![it.atom_i] = f],
            [energies EXCEPT ![it.atom_i] = e])

XYHarmonic_r(it, forces, energies, r_2d, r) ==
    LET e == FMul(FMul(it.k, r), r)
        f == IF FGt(r, TOLERANCE)
             THEN getXY(VScale(FMul(FInt(-2), it.k), r_2d))
             ELSE ZeroVec
    IN  Acc([forces EXCEPT ![it.atom_i] = VAdd(@, f)],
            [energies EXCEPT ![it.atom_i] = FAdd(@, e)])

XYHarmonic_r_2d(it, forces, energies, r_2d) ==
    XYHarmonic_r(it, forces, energies, r_2d, len2d(r_2d))

XYHarmonic_eval(it, positions, forces, energies) ==
    XYHarmonic_r_2d(it, forces, energies,
                    getXY(VSub(getXY(positions[it.atom_i]), it.p0)))

\* SubstrateInteraction::eval without the test of line 253.
Substrate_sig_z10_no_cutoff(it, forces, energies, dz, sig_z4, sig_z10) ==
    Acc([forces EXCEPT ![it.atom_i].z =
            FAdd(@, FAdd(FMul(FDiv(FMul(FInt(4), it.multiplier), dz),
                              FSub(sig_z10, sig_z4)),
                         FMul(FMul(FInt(2), it.ulj), dz)))],
        [energies EXCEPT ![it.atom_i] =
            FAdd(@, FSub(FAdd(FMul(it.multiplier,
                                   FSub(FMul(FRat(2, 5), sig_z10), sig_z4)),
                              FMul(FMul(it.ulj, dz), dz)),
                         it.ushift))])

Substrate_sig_z10(it, forces, energies, dz, sig_z4, sig_z10) ==
    LET in == FLe(dz, it.rc)
        eterm == IF in
                 THEN FAdd(Zero,
                        FSub(FAdd(FMul(it.multiplier,
                                       FSub(FMul(FRat(2, 5), sig_z10), sig_z4)),
                                  FMul(FMul(it.ulj, dz), dz)),
                             it.ushift))
                 ELSE Zero
        fterm == IF in
                 THEN FAdd(Zero,
                        FAdd(FMul(FDiv(FMul(FInt(4), it.multiplier), dz),
                                  FSub(sig_z10, sig_z4)),
                             FMul(FMul(FInt(2), it.ulj), dz)))
                 ELSE Zero
    IN  Acc([forces EXCEPT ![it.atom_i].z = FAdd(@, fterm)],
            [energies EXCEPT ![it.atom_i] = FAdd(@, eterm)])

Substrate_sig_z4(it, forces, energies, dz, sig_z2, sig_z4) ==
    Substrate_sig_z10(it, forces, energies, dz, sig_z4,
                      FMul(FMul(sig_z4, sig_z4), sig_z2))

Substrate_sig_z2(it, forces, energies, dz, sig_z2) ==
    Substrate_sig_z4(it, forces, energies, dz, sig_z2, FMul(sig_z2, sig_z2))

Substrate_sig_z(it, forces, energies, dz, sig_z) ==
    Substrate_sig_z2(it, forces, energies, dz, FMul(sig_z, sig_z))

Substrate_dz(it, forces, energies, dz) ==
    Substrate_sig_z(it, forces, energies, dz, FDiv(it.sig, dz))

Substrate_eval(it, positions, forces, energies) ==
    Substrate_dz(it, forces, energies, FSub(positions[it.atom_i].z, it.z0))

Harmonic_dr(it, r_vec, r, dr) ==
    [e |-> FMul(it.k, Pow2(dr)),
     f |-> VScale(FDiv(FMul(FMul(FInt(-2), it.k), dr), r), r_vec)]

Harmonic_r(it, r_vec, r) == Harmonic_dr(it, r_vec, r, FSub(r, it.r0))

Harmonic_r_vec(it, r_vec) == Harmonic_r(it, r_vec, len(r_vec))

Harmonic_terms(it, positions) ==
    Harmonic_r_vec(it, VSub(positions[it.atom_i1], positions[it.atom_i2]))

Harmonic_eval(it, positions, forces, energies) ==
    AddPair(it, forces, energies, Harmonic_terms(it, positions))

\* The angle kernel: the bond vectors and their lengths (lines 274-277).
AngleBonds(it, positions) ==
    [r1_vec |-> VSub(positions[it.atom_i1], positions[it.shared_i]),
     r2_vec |-> VSub(positions[it.atom_i2], positions[it.shared_i])]

AngleLengths(b) ==
    [r1_vec |-> b.r1_vec, r2_vec |-> b.r2_vec,
     r1 |-> len(b.r1_vec), r2 |-> len(b.r2_vec)]

\* The cosine ratio before the clamp (line 278).
AngleRatio(b) == FDiv(dot(b.r1_vec, b.r2_vec), FMul(b.r1, b.r2))

AngleCos(it, positions) == AngleRatio(AngleLengths(AngleBonds(it, positions)))

\* AngleClamp without the upper clamp.
AngleClamp_lower_only(cos_t) ==
    IF FLt(cos_t, FInt(-1)) THEN FInt(-1) ELSE cos_t

AngleClamp(cos_t) ==
    IF FGt(cos_t, FInt(1)) THEN FInt(1)
    ELSE IF FLt(cos_t, FInt(-1)) THEN FInt(-1)
    ELSE cos_t

HarmonicAngle_f(it, forces, energies, f1, f2, e) ==
    Acc([forces EXCEPT ![it.atom_i1] = VAdd(@, f1),
                       ![it.atom_i2] = VAdd(@, f2),
                       ![it.shared_i] = VSub(@, VAdd(f1, f2))],
        [energies EXCEPT ![it.atom_i1] = FAdd(@, e),
                         ![it.atom_i2] = FAdd(@, e),
                         ![it.shared_i] = FAdd(@, e)])

HarmonicAngle_f_multiplier(it, forces, energies, b, cos_t, d_theta, f_multiplier) ==
    HarmonicAngle_f(it, forces, energies,
        VScale(FDiv(FNeg(f_multiplier), b.r1),
               VSub(VDiv(b.r2_vec, b.r2), VDiv(VScale(cos_t, b.r1_vec), b.r1))),
        VScale(FDiv(FNeg(f_multiplier), b.r2),
               VSub(VDiv(b.r1_vec, b.r1), VDiv(VScale(cos_t, b.r2_vec), b.r2))),
        FMul(it.k, Pow2(d_theta)))

HarmonicAngle_d_theta(it, forces, energies, b, cos_t, sin_t, d_theta) ==
    HarmonicAngle_f_multiplier(it, forces, energies, b, cos_t, d_theta,
        FDiv(FMul(FMul(FInt(-2), it.k), d_theta), sin_t))

HarmonicAngle_theta(it, forces, energies, b, cos_t, theta) ==
    HarmonicAngle_d_theta(it, forces, energies, b, cos_t, Sin(theta),
                          FSub(theta, it.theta0))

HarmonicAngle_cos_t(it, forces, energies, b, cos_t) ==
    HarmonicAngle_theta(it, forces, energies, b, cos_t, Acos(cos_t))

HarmonicAngle_r(it, forces, energies, b) ==
    HarmonicAngle_cos_t(it, forces, energies, b, AngleClamp(AngleRatio(b)))

HarmonicAngle_eval(it, positions, forces, energies) ==
    HarmonicAngle_r(it, forces, energies, AngleLengths(AngleBonds(it, positions)))

HarmonicDihedral_f_multiplier(it, forces, energies, v, mm, nn, d_sigma, f_multiplier) ==
    LET f1 == VScale(FDiv(FMul(FNeg(f_multiplier), v.r23), mm), v.m_vec)
        f2 == VScale(FNeg(f_multiplier),
                VSub(VScale(FDiv(dot(v.r43_vec, v.r23_vec), FMul(nn, v.r23)),
                            v.n_vec),
                     VScale(FDiv(FAdd(FMul(v.r23, v.r23),
                                      dot(v.r12_vec, v.r23_vec)),
                                 FMul(mm, v.r23)), v.m_vec)))
        f3 == VScale(FNeg(f_multiplier),
                VAdd(VScale(FDiv(dot(v.r12_vec, v.r23_vec), FMul(mm, v.r23)),
                            v.m_vec),
                     VScale(FDiv(FSub(FMul(v.r23, v.r23),
                                      dot(v.r43_vec, v.r23_vec)),
                                 FMul(nn, v.r23)), v.n_vec)))
        f4 == VScale(FDiv(FMul(f_multiplier, v.r23), nn), v.n_vec)
        e == FMul(it.k, Pow2(d_sigma))
    IN  Acc([forces EXCEPT ![it.atom_i1] = VAdd(@, f1),
                           ![it.atom_i2] = VAdd(@, f2),
                           ![it.atom_i3] = VAdd(@, f3),
                           ![it.atom_i4] = VAdd(@, f4)],
            [energies EXCEPT ![it.atom_i1] = FAdd(@, e),
                             ![it.atom_i2] = FAdd(@, e),
                             ![it.atom_i3] = FAdd(@, e),
                             ![it.atom_i4] = FAdd(@, e)])

HarmonicDihedral_d_sigma(it, forces, energies, v, m, n, d_sigma) ==
    HarmonicDihedral_f_multiplier(it, forces, energies, v, FMul(m, m), FMul(n, n),
        d_sigma, FMul(FMul(FInt(2), it.k), d_sigma))

HarmonicDihedral_n(it, forces, energies, v, m, n) ==
    HarmonicDihedral_d_sigma(it, forces, energies, v, m, n,
        FSub(Atan(FDiv(FMul(dot(v.n_vec, v.r12_vec), v.r23),
                       dot(v.m_vec, v.n_vec))),
             it.sigma0))

HarmonicDihedral_n_vec(it, forces, energies, v) ==
    HarmonicDihedral_n(it, forces, energies, v, len(v.m_vec), len(v.n_vec))

HarmonicDihedral_r23(it, forces, energies, r12_vec, r23_vec, r43_vec, r23) ==
    HarmonicDihedral_n_vec(it, forces, energies,
        [r12_vec |-> r12_vec, r23_vec |-> r23_vec, r43_vec |-> r43_vec,
         r23 |-> r23, m_vec |-> cross(r12_vec, r23_vec),
         n_vec |-> cross(r43_vec, r23_vec)])

HarmonicDihedral_r43_vec(it, forces, energies, r12_vec, r23_vec, r43_vec) ==
    HarmonicDihedral_r23(it, forces, energies, r12_vec, r23_vec, r43_vec,
                         len(r23_vec))

HarmonicDihedral_eval(it, positions, forces, energies) ==
    HarmonicDihedral_r43_vec(it, forces, energies,
        VSub(positions[it.atom_i1], positions[it.atom_i2]),
        VSub(positions[it.atom_i2], positions[it.atom_i3]),
        VSub(positions[it.atom_i4], positions[it.atom_i3]))

(***************************************************************************)
(* ForceGrid (force_grid.hpp): a periodic lattice of forces and energies,  *)
(* read by trilinear interpolation between the eight nodes around p.       *)
(***************************************************************************)
Wrap(i, n) == i % n

Lerp(a, b, t) == FAdd(FMul(a, FSub(FInt(1), t)), FMul(b, t))
VLerp(a, b, t) == Vec3d(Lerp(a.x, b.x, t), Lerp(a.y, b.y, t), Lerp(a.z, b.z, t))

\* The cell (ix, iy, iz) around p and the place (tx, ty, tz) of p in it.
interpolate_cell(grid, ix, iy, iz, tx, ty, tz) ==
    LET n == grid.grid_points
        at(dx, dy, dz) == <<Wrap(ix + dx, n[1]), Wrap(iy + dy, n[2]),
                            Wrap(iz + dz, n[3])>>
        F(dx, dy, dz) == grid.forces[at(dx, dy, dz)]
        E(dx, dy, dz) == grid.energies[at(dx, dy, dz)]
    IN  [force |->
            VLerp(VLerp(VLerp(F(0, 0, 0), F(1, 0, 0), tx),
                        VLerp(F(0, 1, 0), F(1, 1, 0), tx), ty),
                  VLerp(VLerp(F(0, 0, 1), F(1, 0, 1), tx),
                        VLerp(F(0, 1, 1), F(1, 1, 1), tx), ty), tz),
         energy |->
            Lerp(Lerp(Lerp(E(0, 0, 0), E(1, 0, 0), tx),
                      Lerp(E(0, 1, 0), E(1, 1, 0), tx), ty),
                 Lerp(Lerp(E(0, 0, 1), E(1, 0, 1), tx),
                      Lerp(E(0, 1, 1), E(1, 1, 1), tx), ty), tz)]

interpolate_i(grid, rx, ry, rz, ix, iy, iz) ==
    interpolate_cell(grid, ix, iy, iz,
                     FSub(rx, FInt(ix)), FSub(ry, FInt(iy)), FSub(rz, FInt(iz)))

interpolate_r(grid, rx, ry, rz) ==
    interpolate_i(grid, rx, ry, rz, FFloor(rx), FFloor(ry), FFloor(rz))

interpolate(grid, p) ==
    interpolate_r(grid,
                  FDiv(FSub(p.x, grid.offset.x), grid.spacing.x),
                  FDiv(FSub(p.y, grid.offset.y), grid.spacing.y),
                  FDiv(FSub(p.z, grid.offset.z), grid.spacing.z))

\* AddTip assigning the interpolated values instead of adding them.
AddTip_overwrite(forces, energies, tip) ==
    Acc([forces EXCEPT ![1] = tip.force],
        [energies EXCEPT ![1] = tip.energy])

\* The accumulation of a grid-lookup eval (lines 205-206, 213-214).
AddTip(forces, energies, tip) ==
    Acc([forces EXCEPT ![1] = VAdd(@, tip.force)],
        [energies EXCEPT ![1] = FAdd(@, tip.energy)])

\* History: the arguments of the last eval call.
VARIABLE hist

\* ElectrostaticPotential_eval with hidden state: it looks the grid up at
\* the tip position of the previous call.
ElectrostaticPotential_eval_stale(it, positions, forces, energies) ==
    AddTip(forces, energies, interpolate(it.force_grid, hist.positions[1]))

ElectrostaticPotential_eval(it, positions, forces, energies) ==
    AddTip(forces, energies, interpolate(it.force_grid, positions[1]))

Grid_eval(it, positions, forces, energies) ==
    AddTip(forces, energies, interpolate(it.force_grid, positions[1]))

(***************************************************************************)
(* The system under evaluation: four particles (1 is the tip apex) and     *)
(* one interaction of every kind, built once and never changed.            *)
(***************************************************************************)
Cells2 == {<<i, j, k>> : i \in 0 .. 1, j \in 0 .. 1, k \in 0 .. 1}

\* Lattice values and interaction parameters are written as m * 2^e.
EGrid == [grid_points |-> <<2, 2, 2>>, spacing |-> Vec3d(Fin(1, 0), Fin(1, 0), Fin(1, 0)),
          offset |-> ZeroVec, periodic |-> TRUE,
          forces |-> [c \in Cells2 |-> Vec3d(Norm(3 * (c[1] - c[2]), -3),
                                             Norm(5 * (c[2] - c[3]), -4),
                                             Norm(1 + c[3], -3))],
          energies |-> [c \in Cells2 |-> Norm(1 + c[1] + 2 * c[2] + 4 * c[3], -2)]]

GGrid == [grid_points |-> <<2, 2, 2>>, spacing |-> Vec3d(Fin(1, 0), Fin(1, 0), Fin(1, 0)),
          offset |-> ZeroVec, periodic |-> TRUE,
          forces |-> [c \in Cells2 |-> Vec3d(Norm(c[1], 0), Norm(-c[2], 0),
                                             Norm(1 - c[3], 0))],
          energies |-> [c \in Cells2 |-> Norm(3 * c[1] - c[2] + c[3], 0)]]

Interactions ==
    << [kind |-> "ElectrostaticPotential", force_grid |-> EGrid],
       [kind |-> "LJ", atom_i1 |-> 1, atom_i2 |-> 2,
        es12 |-> Fin(1, 0), es6 |-> Fin(1, 0)],
       [kind |-> "Morse", atom_i1 |-> 1, atom_i2 |-> 3,
        de |-> Fin(1, 0), a |-> Fin(1, 0), re |-> Fin(1, 0)],
       [kind |-> "Coulomb", atom_i1 |-> 1, atom_i2 |-> 2, qq |-> Fin(1, 0)],
       [kind |-> "Grid", force_grid |-> GGrid],
       [kind |-> "TipHarmonic", atom_i1 |-> 0, atom_i2 |-> 1,
        k |-> Fin(1, -1), r0 |-> Zero],
       [kind |-> "XYHarmonic", atom_i |-> 0, p0 |-> ZeroVec, k |-> Fin(1, 0)],
       [kind |-> "Substrate", atom_i |-> 1, z0 |-> Zero, sig |-> Fin(1, 0),
        multiplier |-> Fin(1, 0), ulj |-> Fin(1, -2), ushift |-> Fin(1, -3),
        rc |-> Fin(1, 0)],
       [kind |-> "Harmonic", atom_i1 |-> 0, atom_i2 |-> 1,
        k |-> Fin(1, 0), r0 |-> Fin(1, 0)],
       [kind |-> "HarmonicAngle", atom_i1 |-> 0, atom_i2 |-> 2, shared_i |-> 1,
        k |-> Fin(1, 0), theta0 |-> Fin(3, -1)],
       [kind |-> "HarmonicDihedral", atom_i1 |-> 0, atom_i2 |-> 1,
        atom_i3 |-> 2, atom_i4 |-> 3, k |-> Fin(1, 0), sigma0 |-> Zero] >>

NInteractions == Len(Interactions)

\* The virtual call interaction->eval(positions, forces, energies).
eval(it, positions, forces, energies) ==
    CASE it.kind = "ElectrostaticPotential" ->
            ElectrostaticPotential_eval(it, positions, forces, energies)
      [] it.kind = "LJ" -> LJ_eval(it, positions, forces, energies)
      [] it.kind = "Morse" -> Morse_eval(it, positions, forces, energies)
      [] it.kind = "Coulomb" -> Coulomb_eval(it, positions, forces, energies)
      [] it.kind = "Grid" -> Grid_eval(it, positions, forces, energies)
      [] it.kind = "TipHarmonic" -> TipHarmonic_eval(it, positions, forces, energies)
      [] it.kind = "XYHarmonic" -> XYHarmonic_eval(it, positions, forces, energies)
      [] it.kind = "Substrate" -> Substrate_eval(it, positions, forces, energies)
      [] it.kind = "Harmonic" -> Harmonic_eval(it, positions, forces, energies)
      [] it.kind = "HarmonicAngle" ->
            HarmonicAngle_eval(it, positions, forces, energies)
      [] it.kind = "HarmonicDihedral" ->
            HarmonicDihedral_eval(it, positions, forces, energies)

\* The positions the minimizer may hand to an evaluation.
Points == {Vec3i(0, 0, 0), Vec3i(1, 3, 0), Vec3i(0, 0, 1), Vec3i(3, 1, 2)}

(***************************************************************************)
(* The state: the arrays the minimizer hands to the kernels and the place  *)
(* of the evaluation pass in the interaction list.  hist and ref are       *)
(* history: the arguments of the last eval call, and the result of the     *)
(* first completed pass.                                                   *)
(***************************************************************************)
VARIABLES positions, forces, energies, pc, ref

\* ord: a second pass over the same interactions in another order.
\* bld: the construction of an ElectrostaticPotentialInteraction.
VARIABLES ord, bld

\* world: the processes of an MPI run of main.
VARIABLE world

vars == <<positions, forces, energies, pc, hist, ref, ord, bld, world>>

NoCall == [last |-> 0, positions |-> ZeroForces, forces |-> ZeroForces,
           energies |-> ZeroEnergies]
NoRef == [set |-> FALSE, away |-> FALSE, positions |-> ZeroForces,
          forces |-> ZeroForces, energies |-> ZeroEnergies]
NoOrd == [active |-> {}, doneA |-> {}, seqB |-> <<>>, forcesB |-> ZeroForces,
          energiesB |-> ZeroEnergies, exact |-> TRUE]
NoBuild == [stage |-> "none"]
NoWorld == [stage |-> "none"]

Init ==
    /\ positions \in [Atoms -> Points]
    /\ forces = ZeroForces
    /\ energies = ZeroEnergies
    /\ pc = 1
    /\ hist = NoCall
    /\ ref = NoRef
    /\ ord = NoOrd
    /\ bld = NoBuild
    /\ world = NoWorld

\* One step of the evaluation pass: the accumulators become r, the call's
\* arguments are remembered, and the pass moves to the next interaction.
Call(r) ==
    /\ forces' = r.forces
    /\ energies' = r.energies
    /\ hist' = [last |-> pc, positions |-> positions, forces |-> forces,
                energies |-> energies]
    /\ pc' = pc + 1
    /\ ref' = IF pc < NInteractions THEN ref
              ELSE IF ~ref.set
                   THEN [set |-> TRUE, away |-> FALSE, positions |-> positions,
                         forces |-> r.forces, energies |-> r.energies]
              ELSE IF positions # ref.positions THEN [ref EXCEPT !.away = TRUE]
              ELSE ref
    /\ UNCHANGED <<positions, ord, bld, world>>

Next_is(kind) == pc <= NInteractions /\ Interactions[pc].kind = kind

ElectrostaticPotentialInteraction_eval ==
    /\ Next_is("ElectrostaticPotential")
    /\ Call(ElectrostaticPotential_eval(Interactions[pc], positions, forces, energies))

LJInteraction_eval ==
    /\ Next_is("LJ")
    /\ Call(LJ_eval(Interactions[pc], positions, forces, energies))

MorseInteraction_eval ==
    /\ Next_is("Morse")
    /\ Call(Morse_eval(Interactions[pc], positions, forces, energies))

CoulombInteraction_eval ==
    /\ Next_is("Coulomb")
    /\ Call(Coulomb_eval(Interactions[pc], positions, forces, energies))

GridInteraction_eval ==
    /\ Next_is("Grid")
    /\ Call(Grid_eval(Interactions[pc], positions, forces, energies))

TipHarmonicInteraction_eval ==
    /\ Next_is("TipHarmonic")
    /\ Call(TipHarmonic_eval(Interactions[pc], positions, forces, energies))

XYHarmonicInteraction_eval ==
    /\ Next_is("XYHarmonic")
    /\ Call(XYHarmonic_eval(Interactions[pc], positions, forces, energies))

SubstrateInteraction_eval ==
    /\ Next_is("Substrate")
    /\ Call(Substrate_eval(Interactions[pc], positions, forces, energies))

HarmonicInteraction_eval ==
    /\ Next_is("Harmonic")
    /\ Call(Harmonic_eval(Interactions[pc], positions, forces, energies))

HarmonicAngleInteraction_eval ==
    /\ Next_is("HarmonicAngle")
    /\ Call(HarmonicAngle_eval(Interactions[pc], positions, forces, energies))

HarmonicDihedralInteraction_eval ==
    /\ Next_is("HarmonicDihedral")
    /\ Call(HarmonicDihedral_eval(Interactions[pc], positions, forces, energies))

\* The caller zeroes the force and energy arrays before each pass.
ResetArrays ==
    /\ pc = NInteractions + 1
    /\ forces' = ZeroForces
    /\ energies' = ZeroEnergies
    /\ pc' = 1
    /\ hist' = [hist EXCEPT !.last = 0]
    /\ UNCHANGED <<positions, ref, ord, bld, world>>

\* Between two passes the minimizer moves the tip apex, particle 1.
MovePositions ==
    /\ pc = NInteractions + 1
    /\ \E p1 \in Points \ {positions[1]} :
          positions' = [positions EXCEPT ![1] = p1]
    /\ UNCHANGED <<forces, energies, pc, hist, ref, ord, bld, world>>

Next ==
    \/ ElectrostaticPotentialInteraction_eval
    \/ LJInteraction_eval
    \/ MorseInteraction_eval
    \/ CoulombInteraction_eval
    \/ GridInteraction_eval
    \/ TipHarmonicInteraction_eval
    \/ XYHarmonicInteraction_eval
    \/ SubstrateInteraction_eval
    \/ HarmonicInteraction_eval
    \/ HarmonicAngleInteraction_eval
    \/ HarmonicDihedralInteraction_eval
    \/ ResetArrays
    \/ MovePositions

Spec == Init /\ [][Next]_vars

(***************************************************************************)
(* What the claims speak of: the last eval call, the interaction it was    *)
(* made on, and what that kernel adds to zeroed accumulators.              *)
(***************************************************************************)
Called == hist.last > 0
LastIt == Interactions[hist.last]
TwoBody == {"LJ", "Morse", "Coulomb", "Harmonic", "TipHarmonic"}
GridLookup == {"ElectrostaticPotential", "Grid"}

PairTerms(it, pos) ==
    CASE it.kind = "LJ" -> LJ_terms(it, pos)
      [] it.kind = "Morse" -> Morse_terms(it, pos)
      [] it.kind = "Coulomb" -> Coulomb_terms(it, pos)
      [] it.kind = "Harmonic" -> Harmonic_terms(it, pos)
      [] it.kind = "TipHarmonic" -> TipHarmonic_terms(it, pos)

Contribution == eval(LastIt, hist.positions, ZeroForces, ZeroEnergies)

Owned(it) ==
    CASE it.kind \in TwoBody -> {it.atom_i1, it.atom_i2}
      [] it.kind \in GridLookup -> {1}
      [] it.kind \in {"XYHarmonic", "Substrate"} -> {it.atom_i}
      [] it.kind = "HarmonicAngle" -> {it.atom_i1, it.atom_i2, it.shared_i}
      [] it.kind = "HarmonicDihedral" ->
            {it.atom_i1, it.atom_i2, it.atom_i3, it.atom_i4}

NonDegeneratePair ==
    hist.positions[LastIt.atom_i1] # hist.positions[LastIt.atom_i2]

\* C1: a two-body eval on two particles at different positions adds f to
\* the force of the first and -f to the force of the second, and the two
\* increments sum to the zero vector.
C1_Antisymmetric ==
    (Called /\ LastIt.kind \in TwoBody /\ NonDegeneratePair) =>
        LET t == PairTerms(LastIt, hist.positions)
            i1 == LastIt.atom_i1
            i2 == LastIt.atom_i2
        IN  /\ forces[i1] = VAdd(hist.forces[i1], t.f)
            /\ forces[i2] = VAdd(hist.forces[i2], VNeg(t.f))
            /\ VAdd(Contribution.forces[i1], Contribution.forces[i2]) = ZeroVec

C1_Witness ==
    /\ Called /\ LastIt.kind \in TwoBody /\ NonDegeneratePair
    /\ PairTerms(LastIt, hist.positions).f # ZeroVec
    /\ hist.forces[LastIt.atom_i1] # ZeroVec
    /\ VFinite(forces[LastIt.atom_i1]) /\ VFinite(forces[LastIt.atom_i2])
    /\ forces[LastIt.atom_i2] # hist.forces[LastIt.atom_i2]

\* C2: an eval leaves every accumulator entry of a particle the kernel does
\* not own as it was, and each entry of a particle it owns is the entry
\* before the call plus the kernel's contribution; the two grid-lookup
\* kernels own particle 1 only.
C2_AdditiveLocal ==
    Called =>
        /\ LastIt.kind \in GridLookup => Owned(LastIt) = {1}
        /\ \A i \in Atoms \ Owned(LastIt) :
              forces[i] = hist.forces[i] /\ energies[i] = hist.energies[i]
        /\ \A i \in Owned(LastIt) :
              /\ forces[i] = VAdd(hist.forces[i], Contribution.forces[i])
              /\ energies[i] = FAdd(hist.energies[i], Contribution.energies[i])

C2_Witness ==
    /\ Called /\ LastIt.kind = "Grid"
    /\ IsFinite(hist.energies[1]) /\ hist.energies[1] # Zero
    /\ VFinite(hist.forces[1]) /\ hist.forces[1] # ZeroVec
    /\ Contribution.energies[1] # Zero /\ Contribution.forces[1] # ZeroVec
    /\ energies[1] # Contribution.energies[1]
    /\ forces[1] # Contribution.forces[1]
    /\ \E i \in Atoms \ {1} : hist.forces[i] # ZeroVec

\* The lengths a kernel divides by.
DerivedLengths(it, pos) ==
    CASE it.kind \in {"LJ", "Morse", "Coulomb", "Harmonic"} ->
            {len(VSub(pos[it.atom_i1], pos[it.atom_i2]))}
      [] it.kind = "TipHarmonic" ->
            {len2d(getXY(VSub(pos[it.atom_i1], pos[it.atom_i2])))}
      [] it.kind = "Substrate" ->
            LET dz == FSub(pos[it.atom_i].z, it.z0)
            IN  {IF dz.m < 0 THEN FNeg(dz) ELSE dz}
      [] it.kind = "HarmonicAngle" ->
            {len(VSub(pos[it.atom_i1], pos[it.shared_i])),
             len(VSub(pos[it.atom_i2], pos[it.shared_i]))}
      [] it.kind = "HarmonicDihedral" ->
            LET r23_vec == VSub(pos[it.atom_i2], pos[it.atom_i3])
            IN  {len(r23_vec),
                 len(cross(VSub(pos[it.atom_i1], pos[it.atom_i2]), r23_vec)),
                 len(cross(VSub(pos[it.atom_i4], pos[it.atom_i3]), r23_vec))}
      [] OTHER -> {}

\* C3: a kernel that divides by a derived length adds a zero force when
\* that length is below TOLERANCE.
C3_ZeroForceBelowTolerance ==
    (Called /\ \E l \in DerivedLengths(LastIt, hist.positions) : FLt(l, TOLERANCE))
        => Contribution.forces = ZeroForces

\* C4: in the angle kernel the argument of acos lies in [-1, 1]: a cosine
\* ratio above 1 becomes exactly 1 (theta = 0), one below -1 becomes -1,
\* and for non-zero bond vectors no domain error (NaN) reaches the energy.
C4_AcosArgumentClamped ==
    (/\ Called /\ LastIt.kind = "HarmonicAngle"
     /\ hist.positions[LastIt.atom_i1] # hist.positions[LastIt.shared_i]
     /\ hist.positions[LastIt.atom_i2] # hist.positions[LastIt.shared_i]) =>
        LET raw == AngleCos(LastIt, hist.positions)
            cos_t == AngleClamp(raw)
            i1 == LastIt.atom_i1
        IN  /\ FLe(FInt(-1), cos_t) /\ FLe(cos_t, FInt(1))
            /\ FGt(raw, FInt(1)) => cos_t = FInt(1) /\ Acos(cos_t) = Zero
            /\ FLt(raw, FInt(-1)) => cos_t = FInt(-1)
            /\ IsFinite(Acos(cos_t))
            /\ IsFinite(hist.energies[i1]) => IsFinite(energies[i1])
            /\ FGt(raw, FInt(1)) =>
                  energies[i1] = FAdd(hist.energies[i1],
                                      FMul(LastIt.k, Pow2(FNeg(LastIt.theta0))))

C4_Witness ==
    /\ Called /\ LastIt.kind = "HarmonicAngle"
    /\ FGt(AngleCos(LastIt, hist.positions), FInt(1))
    /\ IsFinite(hist.energies[LastIt.atom_i1])
    /\ IsFinite(energies[LastIt.atom_i1])

\* C6: a two-body eval adds the whole pair energy e to the energy of each
\* of its two particles, so the two increments sum to 2e.
C6_FullEnergyToBoth ==
    (Called /\ LastIt.kind \in TwoBody) =>
        LET t == PairTerms(LastIt, hist.positions)
            i1 == LastIt.atom_i1
            i2 == LastIt.atom_i2
        IN  /\ energies[i1] = FAdd(hist.energies[i1], t.e)
            /\ energies[i2] = FAdd(hist.energies[i2], t.e)
            /\ IsFinite(t.e) =>
                  FAdd(Contribution.energies[i1], Contribution.energies[i2])
                      = FMul(FInt(2), t.e)

C6_Witness ==
    /\ Called /\ LastIt.kind \in TwoBody
    /\ IsFinite(PairTerms(LastIt, hist.positions).e)
    /\ PairTerms(LastIt, hist.positions).e # Zero
    /\ IsFinite(hist.energies[LastIt.atom_i1])
    /\ hist.energies[LastIt.atom_i1] # Zero
    /\ hist.energies[LastIt.atom_i1] # hist.energies[LastIt.atom_i2]

PassComplete ==
    pc = NInteractions + 1 /\ hist.last = NInteractions /\ hist.positions = positions

SubstrateCalled == Called /\ LastIt.kind = "Substrate"

\* The height of the kernel's particle above the wall at the last call.
WallHeight == FSub(hist.positions[LastIt.atom_i].z, LastIt.z0)

WallRatio(it, dz) == FDiv(it.sig, dz)

\* The wall energy with its shift term, from the powers of sig/dz.
WallEnergyOf(it, dz, s2, s4) ==
    FSub(FAdd(FMul(it.multiplier,
                   FSub(FMul(FRat(2, 5), FMul(FMul(s4, s4), s2)), s4)),
              FMul(FMul(it.ulj, dz), dz)),
         it.ushift)

\* The z force the kernel pairs with that energy.
WallForceOf(it, dz, s2, s4) ==
    FAdd(FMul(FDiv(FMul(FInt(4), it.multiplier), dz),
              FSub(FMul(FMul(s4, s4), s2), s4)),
         FMul(FMul(FInt(2), it.ulj), dz))

WallSquare(x) == FMul(x, x)

WallEnergy(it, dz) ==
    WallEnergyOf(it, dz, WallSquare(WallRatio(it, dz)),
                 WallSquare(WallSquare(WallRatio(it, dz))))

WallForce(it, dz) ==
    WallForceOf(it, dz, WallSquare(WallRatio(it, dz)),
                WallSquare(WallSquare(WallRatio(it, dz))))

\* C11: the substrate kernel leaves the x and y force components of its
\* particle (and every other particle) as they were; when the height
\* dz = z - z0 is above the cutoff rc it adds exactly zero to the z force and
\* to the energy; when dz <= rc it adds the wall energy with the shift term
\* and the z force that goes with it.
C11_SubstrateAlongZBelowCutoff ==
    SubstrateCalled =>
        /\ \A j \in Atoms \ {LastIt.atom_i} :
              forces[j] = hist.forces[j] /\ energies[j] = hist.energies[j]
        /\ forces[LastIt.atom_i].x = hist.forces[LastIt.atom_i].x
        /\ forces[LastIt.atom_i].y = hist.forces[LastIt.atom_i].y
        /\ FGt(WallHeight, LastIt.rc) =>
              /\ forces[LastIt.atom_i].z = hist.forces[LastIt.atom_i].z
              /\ energies[LastIt.atom_i] = hist.energies[LastIt.atom_i]
        /\ FLe(WallHeight, LastIt.rc) =>
              /\ forces[LastIt.atom_i].z =
                    FAdd(hist.forces[LastIt.atom_i].z, WallForce(LastIt, WallHeight))
              /\ energies[LastIt.atom_i] =
                    FAdd(hist.energies[LastIt.atom_i], WallEnergy(LastIt, WallHeight))

\* Below the cutoff, with finite terms: the z force and the energy of the
\* particle have changed, its x and y components were not zero and stayed.
C11_Witness ==
    /\ SubstrateCalled
    /\ FLe(WallHeight, LastIt.rc)
    /\ VFinite(forces[LastIt.atom_i]) /\ IsFinite(energies[LastIt.atom_i])
    /\ VFinite(hist.forces[LastIt.atom_i])
    /\ ~IsZero(hist.forces[LastIt.atom_i].x) /\ ~IsZero(hist.forces[LastIt.atom_i].y)
    /\ forces[LastIt.atom_i].x = hist.forces[LastIt.atom_i].x
    /\ forces[LastIt.atom_i].y = hist.forces[LastIt.atom_i].y
    /\ forces[LastIt.atom_i].z # hist.forces[LastIt.atom_i].z
    /\ energies[LastIt.atom_i] # hist.energies[LastIt.atom_i]

\* Above the cutoff, on finite accumulators that were not zero.
SubstrateAboveCutoff ==
    /\ SubstrateCalled
    /\ FGt(WallHeight, LastIt.rc)
    /\ VFinite(hist.forces[LastIt.atom_i])
    /\ ~IsZero(hist.forces[LastIt.atom_i].z)
    /\ forces = hist.forces /\ energies = hist.energies

(***************************************************************************)
(* Two passes over the same interactions: one in the order of the list,    *)
(* one in any order, from the same positions and zeroed accumulators.      *)
(***************************************************************************)
OrderSize == 3

OrderSets == {S \in SUBSET (1 .. NInteractions) : Cardinality(S) = OrderSize}

OrderPositions ==
    {[i \in Atoms |-> q[i + 1]] :
        q \in {<<Vec3i(1, 3, 0), Vec3i(0, 0, 1), Vec3i(3, 1, 2), Vec3i(0, 0, 0)>>,
               <<Vec3i(0, 0, 0), Vec3i(3, 1, 2), Vec3i(1, 3, 0), Vec3i(0, 0, 1)>>,
               <<Vec3i(3, 1, 2), Vec3i(1, 3, 0), Vec3i(0, 0, 0), Vec3i(0, 0, 1)>>,
               <<Vec3i(0, 0, 1), Vec3i(3, 1, 2), Vec3i(0, 0, 0), Vec3i(1, 3, 0)>>}}

\* x + y is representable: the double sum loses no bit.
AddExact(x, y) ==
    /\ IsFinite(x) /\ IsFinite(y)
    /\ \/ x.m = 0
       \/ y.m = 0
       \/ /\ Abs(x.e - y.e) <= 2 * MantBits
          /\ LET lo == Min(x.e, y.e)
                 exact == x.m * (2 ^ (x.e - lo)) + y.m * (2 ^ (y.e - lo))
                 s == FAdd(x, y)
             IN  /\ IsFinite(s)
                 /\ IF exact = 0 THEN s.m = 0
                    ELSE s.m # 0 /\ s.e >= lo /\ s.e - lo <= 2 * MantBits + 1
                         /\ s.m * (2 ^ (s.e - lo)) = exact

VAddExact(a, b) == AddExact(a.x, b.x) /\ AddExact(a.y, b.y) /\ AddExact(a.z, b.z)

\* Adding the contribution c to the accumulators f, e loses no bit.
AccExact(f, e, c) ==
    \A i \in Atoms : VAddExact(f[i], c.forces[i]) /\ AddExact(e[i], c.energies[i])

InitOrder ==
    /\ positions \in OrderPositions
    /\ forces = ZeroForces
    /\ energies = ZeroEnergies
    /\ pc = 1
    /\ hist = NoCall
    /\ ref = NoRef
    /\ ord \in {[NoOrd EXCEPT !.active = S] : S \in OrderSets}
    /\ bld = NoBuild
    /\ world = NoWorld

\* interaction i evaluated on the arrays f, e gave r; c is what it adds
\* to zeroed arrays.
OrderStep(pass, i, f, e, r, c) ==
    /\ IF pass = "A"
       THEN /\ forces' = r.forces
            /\ energies' = r.energies
            /\ ord' = [ord EXCEPT !.doneA = @ \cup {i},
                                  !.exact = @ /\ AccExact(f, e, c)]
       ELSE /\ ord' = [ord EXCEPT !.seqB = Append(@, i),
                                  !.forcesB = r.forces,
                                  !.energiesB = r.energies,
                                  !.exact = @ /\ AccExact(f, e, c)]
            /\ UNCHANGED <<forces, energies>>
    /\ UNCHANGED <<positions, pc, hist, ref, bld, world>>

OrderEval(pass, i, f, e) ==
    OrderStep(pass, i, f, e, eval(Interactions[i], positions, f, e),
              eval(Interactions[i], positions, ZeroForces, ZeroEnergies))

SeqRange(q) == {q[j] : j \in 1 .. Len(q)}

\* The pass in list order: the next interaction is the first one not done.
EvalInOrder ==
    /\ ord.doneA # ord.active
    /\ \E i \in ord.active \ ord.doneA :
          /\ \A j \in ord.active \ ord.doneA : i <= j
          /\ OrderEval("A", i, forces, energies)

\* The pass in another order: any interaction not done yet comes next.
EvalAnyOrder ==
    /\ ord.active # {}
    /\ ord.doneA = ord.active
    /\ \E i \in ord.active \ SeqRange(ord.seqB) :
          OrderEval("B", i, ord.forcesB, ord.energiesB)

NextOrder == EvalInOrder \/ EvalAnyOrder

SpecOrder == InitOrder /\ [][NextOrder]_vars

BothDone == ord.active # {} /\ ord.doneA = ord.active /\ SeqRange(ord.seqB) = ord.active

\* C8 as stated: any two orders of the same kernels give equal arrays.
C8_OrderIndependent ==
    BothDone => forces = ord.forcesB /\ energies = ord.energiesB

\* C8, amended: two orders of the same kernels give equal arrays when no
\* addition into an accumulator rounded, in either pass.
C8_OrderIndependentWhenExact ==
    (BothDone /\ ord.exact) => forces = ord.forcesB /\ energies = ord.energiesB

C8_Witness ==
    /\ BothDone /\ ord.exact
    /\ ord.seqB[1] > ord.seqB[2]
    /\ forces = ord.forcesB /\ energies = ord.energiesB
    /\ \E i \in Atoms :
          Cardinality({k \in ord.active :
              eval(Interactions[k], positions, ZeroForces, ZeroEnergies).forces[i]
                  # ZeroVec}) >= 3

(***************************************************************************)
(* The constructor of ElectrostaticPotentialInteraction (lines 51-199),    *)
(* one action per block of the source.  The transforms of fft.hpp are not  *)
(* computed: of the energy and force lattices only their being built is    *)
(* kept.  bld holds the arguments and the locals of the constructor.       *)
(***************************************************************************)
BuilderShapes == {<<4, 4, 4>>, <<3, 3, 3>>, <<5, 3, 4>>, <<0, 3, 3>>}
BuilderSpacings == {Fin(1, 0), Fin(1, -1)}
BuilderCharges == {Fin(1, 0), Fin(-3, -1), NaN, PInf}
BuilderWidths == {Fin(1, -3), Fin(1, -1), NaN}

Cells(n) == {<<i, j, k>> : i \in 0 .. n[1] - 1, j \in 0 .. n[2] - 1,
                           k \in 0 .. n[3] - 1}

\* The literal 1.0e-10 of line 73.
CutoffThreshold == FDiv(FInt(1), FMul(FInt(100000), FInt(100000)))

\* exp(-0.5*r_sqr/gaussian_width_sqr) of lines 73 and 84.
Amplitude(r_sqr, gaussian_width_sqr) ==
    Exp(FDiv(FMul(FRat(-1, 2), r_sqr), gaussian_width_sqr))

\* The search for the cutoff (lines 69-77): the first ix < n_min - 1 whose
\* amplitude is below the threshold, else n_min.
RECURSIVE CutoffFrom(_, _, _, _)
CutoffFrom(ix, n_min, spacing_x, gaussian_width_sqr) ==
    IF ix >= n_min - 1 THEN [cutoff_dist |-> n_min, found |-> FALSE]
    ELSE IF FLt(Amplitude(Pow2(FMul(FInt(ix), spacing_x)), gaussian_width_sqr),
                CutoffThreshold)
         THEN [cutoff_dist |-> ix, found |-> TRUE]
    ELSE CutoffFrom(ix + 1, n_min, spacing_x, gaussian_width_sqr)

\* DataGrid::positionAt of rho_tip, whose origin is never set: index times
\* spacing.
positionAt(b, ix, iy, iz) ==
    Vec3d(FMul(FInt(ix), b.spacing.x), FMul(FInt(iy), b.spacing.y),
          FMul(FInt(iz), b.spacing.z))

\* DataGrid::atPBC: the cell an index falls on, periodically.
atPBC(n, ix, iy, iz) == <<Wrap(ix, n[1]), Wrap(iy, n[2]), Wrap(iz, n[3])>>

gaussian_norm_factor(b) ==
    FDiv(FInt(1), Pow3(FMul(b.gaussian_width, FSqrt(FMul(FInt(2), PI)))))

\* The right-hand side of line 84.
GaussianAt(b, ix, iy, iz) ==
    FMul(FMul(b.tip_charge, gaussian_norm_factor(b)),
         Amplitude(lensqr(positionAt(b, ix, iy, iz)), Pow2(b.gaussian_width)))

\* The three loops of lines 79-87, innermost first.  A lattice without
\* cells takes no write; testing for it has TLC evaluate the lattice at
\* every iteration, not as one nested expression at the end.
RECURSIVE FillZ(_, _, _, _, _)
FillZ(b, rho, ix, iy, iz) ==
    IF iz >= b.cutoff_dist \/ DOMAIN rho = {} THEN rho
    ELSE FillZ(b, [rho EXCEPT ![atPBC(b.n_grid, ix, iy, iz)] =
                                  GaussianAt(b, ix, iy, iz)],
               ix, iy, iz + 1)

RECURSIVE FillY(_, _, _, _)
FillY(b, rho, ix, iy) ==
    IF iy > b.cutoff_dist \/ DOMAIN rho = {} THEN rho
    ELSE FillY(b, FillZ(b, rho, ix, iy, -b.cutoff_dist), ix, iy + 1)

RECURSIVE FillX(_, _, _)
FillX(b, rho, ix) ==
    IF ix > b.cutoff_dist \/ DOMAIN rho = {} THEN rho
    ELSE FillX(b, FillY(b, rho, ix, -b.cutoff_dist), ix + 1)

\* The spacing of the k-space lattice along an axis of n points of
\* spacing s, as fft_data_grid sets it: 1/(n*s).
KSpacing(n, s) == FDiv(FInt(1), FMul(FInt(n), s))

\* kx_points[ix] of lines 140-144.
KPoint(ix, n, spacing_k) ==
    IF ix >= n \div 2
    THEN FSub(FMul(FInt(ix), spacing_k), FMul(FInt(n), spacing_k))
    ELSE FMul(FInt(ix), spacing_k)

KPoints(n, spacing_k) == [j \in 1 .. n |-> KPoint(j - 1, n, spacing_k)]

MinOf3(n) == Min(Min(n[1], n[2]), n[3])

InitBuilder ==
    /\ positions = ZeroForces
    /\ forces = ZeroForces
    /\ energies = ZeroEnergies
    /\ pc = 1
    /\ hist = NoCall
    /\ ref = NoRef
    /\ ord = NoOrd
    /\ world = NoWorld
    /\ \E n \in BuilderShapes, s \in BuilderSpacings, q \in BuilderCharges,
          w \in BuilderWidths :
          bld = [stage |-> "start", n_grid |-> n, spacing |-> Vec3d(s, s, s),
                 tip_charge |-> q, gaussian_width |-> w,
                 cutoff_dist |-> 0, found |-> FALSE,
                 rho_tip |-> [c \in Cells(n) |-> Zero],
                 k_points |-> <<<<>>, <<>>, <<>>>>, built |-> FALSE]

BuilderStep(b) ==
    /\ bld' = b
    /\ UNCHANGED <<positions, forces, energies, pc, hist, ref, ord, world>>

\* Lines 52-77: the lattices are allocated and the cutoff is searched.
Ctor_Cutoff ==
    /\ bld.stage = "start"
    /\ LET c == CutoffFrom(0, MinOf3(bld.n_grid), bld.spacing.x,
                           Pow2(bld.gaussian_width))
       IN  BuilderStep([bld EXCEPT !.stage = "cutoff",
                                   !.cutoff_dist = c.cutoff_dist,
                                   !.found = c.found])

\* Lines 78-87: the Gaussian is written to rho_tip.
Ctor_Gaussian ==
    /\ bld.stage = "cutoff"
    /\ BuilderStep([bld EXCEPT !.stage = "gaussian",
                               !.rho_tip = FillX(bld, @, -bld.cutoff_dist)])

\* Lines 102-133: the transforms, the product and the energy lattice.
Ctor_Energy ==
    /\ bld.stage = "gaussian"
    /\ BuilderStep([bld EXCEPT !.stage = "energy"])

\* What a transform of a lattice without cells does is not defined by the
\* sources at hand: the constructor may also end there.
Ctor_EnergyOfEmptyLattice ==
    /\ bld.stage = "gaussian"
    /\ Cells(bld.n_grid) = {}
    /\ BuilderStep([bld EXCEPT !.stage = "crashed"])

\* Lines 136-154: the wavenumbers of the three axes.
Ctor_KPoints ==
    /\ bld.stage = "energy"
    /\ BuilderStep([bld EXCEPT
          !.stage = "kpoints",
          !.k_points = <<KPoints(bld.n_grid[1], KSpacing(bld.n_grid[1], bld.spacing.x)),
                         KPoints(bld.n_grid[2], KSpacing(bld.n_grid[2], bld.spacing.y)),
                         KPoints(bld.n_grid[3], KSpacing(bld.n_grid[3], bld.spacing.z))>>])

\* kx_points[ix] is written after reserve(), beyond size(): undefined
\* behaviour, which a build with checked operator[] ends by aborting.
Ctor_KPointsBeyondSize ==
    /\ bld.stage = "energy"
    /\ Cells(bld.n_grid) # {}
    /\ BuilderStep([bld EXCEPT !.stage = "crashed"])

\* Lines 156-190: the three force components.
Ctor_Force ==
    /\ bld.stage = "kpoints"
    /\ BuilderStep([bld EXCEPT !.stage = "force"])

\* Lines 192-198: force_grid_ is set up and takes the values.
Ctor_Assemble ==
    /\ bld.stage = "force"
    /\ BuilderStep([bld EXCEPT !.stage = "built", !.built = TRUE])

NextBuilder ==
    \/ Ctor_Cutoff
    \/ Ctor_Gaussian
    \/ Ctor_Energy
    \/ Ctor_EnergyOfEmptyLattice
    \/ Ctor_KPoints
    \/ Ctor_KPointsBeyondSize
    \/ Ctor_Force
    \/ Ctor_Assemble

SpecBuilder == InitBuilder /\ [][NextBuilder]_vars

(***************************************************************************)
(* Claims about the constructor, checked under SpecBuilder.                *)
(***************************************************************************)
KPointsSet == bld.stage \in {"kpoints", "force", "built"}
GaussianSet == bld.stage \in {"gaussian", "energy", "kpoints", "force", "built"}

\* The wavenumber the indexing rule gives: i/(N*s) when i < N/2, else
\* (i-N)/(N*s).  The quotients are taken as the code takes them, as
\* multiples of the k-spacing, so that only the choice of branch is compared.
RuleKPoint(i, n, spacing_k) ==
    IF 2 * i < n
    THEN FMul(FInt(i), spacing_k)
    ELSE FSub(FMul(FInt(i), spacing_k), FMul(FInt(n), spacing_k))

SpacingOf(b, a) == IF a = 1 THEN b.spacing.x ELSE IF a = 2 THEN b.spacing.y ELSE b.spacing.z

\* C5: on every axis of length N, even or odd, the wavenumber of index i is
\* i/(N*s) when i < N/2 and (i-N)/(N*s) when i >= N/2, for all i in 0..N-1.
C5_WavenumberRule ==
    KPointsSet =>
        \A a \in 1 .. 3 : \A i \in 0 .. bld.n_grid[a] - 1 :
            bld.k_points[a][i + 1] =
                RuleKPoint(i, bld.n_grid[a], KSpacing(bld.n_grid[a], SpacingOf(bld, a)))

DegenerateLattice == Cells(bld.n_grid) = {}
ZeroSupport == bld.stage # "start" /\ bld.cutoff_dist = 0
NonFiniteTip == ~IsFinite(bld.tip_charge) \/ ~IsFinite(bld.gaussian_width)

\* C9: construction fails, and no ForceGrid becomes available, when the
\* lattice has an axis without points, when the cutoff collapses to zero
\* support, or when the tip charge or the Gaussian width is not finite.
C9_FatalOnBadInput ==
    (DegenerateLattice \/ ZeroSupport \/ NonFiniteTip) => ~bld.built

\* The offset of the nearest periodic image of a cell index.
NearestImage(a, n) == IF 2 * a <= n THEN a ELSE a - n

WithinCutoff(b, ox, oy, oz) ==
    Abs(ox) <= b.cutoff_dist /\ Abs(oy) <= b.cutoff_dist /\ Abs(oz) <= b.cutoff_dist

PeriodicGaussianAt(b, ox, oy, oz) ==
    IF WithinCutoff(b, ox, oy, oz) THEN GaussianAt(b, ox, oy, oz) ELSE Zero

PeriodicGaussian(b, cell) ==
    PeriodicGaussianAt(b, NearestImage(cell[1], b.n_grid[1]),
                       NearestImage(cell[2], b.n_grid[2]),
                       NearestImage(cell[3], b.n_grid[3]))

Negated(b, cell) == atPBC(b.n_grid, -cell[1], -cell[2], -cell[3])

\* C10: with the cutoff c the first index whose amplitude is below 1e-10,
\* every cell at an offset within c on all three axes holds the Gaussian of
\* that offset (of the nearest image when offsets wrap), every other cell
\* holds 0, and the lattice is symmetric under negation of the offset.
C10_PeriodicGaussian ==
    (GaussianSet /\ bld.found /\ ~NonFiniteTip) =>
        \A cell \in Cells(bld.n_grid) :
            /\ bld.rho_tip[cell] = PeriodicGaussian(bld, cell)
            /\ bld.rho_tip[cell] = bld.rho_tip[Negated(bld, cell)]

(***************************************************************************)
(* main of an MPI build (mechafm.cpp), one process per rank.  world.proc   *)
(* gives every process its place in the statements of main, whether it is  *)
(* inside a collective call, and the collective calls it has entered.      *)
(* Parsing, Simulation::initialize and Simulation::run are in other files: *)
(* of run only its counters are kept.                                      *)
(***************************************************************************)
NProcs == 3
MaxSteps == 1
MaxPoints == 1
NStreams == 2

Procs == 0 .. NProcs - 1

\* simulation.root_process_ = 0 (line 165).
root_process == 0

\* Simulation::rootProcess().
rootProcess(p) == p = root_process

\* closeUniverse with its barrier inside the root-only block.
MainProgram_barrier_on_root ==
    << [fn |-> "openParallelUniverse", op |-> "MPI_Init", guard |-> "all"],
       [fn |-> "openUniverse", op |-> "MPI_Barrier", guard |-> "all"],
       [fn |-> "openUniverse", op |-> "open_streams", guard |-> "root"],
       [fn |-> "main", op |-> "run", guard |-> "all"],
       [fn |-> "closeUniverse", op |-> "MPI_Barrier", guard |-> "root"],
       [fn |-> "closeUniverse", op |-> "close_streams", guard |-> "root"],
       [fn |-> "finalize", op |-> "MPI_Reduce", guard |-> "all"],
       [fn |-> "finalize", op |-> "MPI_Reduce", guard |-> "all"],
       [fn |-> "finalize", op |-> "statistics", guard |-> "root_statistics"],
       [fn |-> "closeParallelUniverse", op |-> "MPI_Barrier", guard |-> "all"],
       [fn |-> "closeParallelUniverse", op |-> "MPI_Reduce", guard |-> "all"],
       [fn |-> "closeParallelUniverse", op |-> "MPI_Finalize", guard |-> "all"] >>

\* The statements of main that matter to the processes' synchronisation, in
\* the order main reaches them, each with the condition it stands under.
MainProgram ==
    << [fn |-> "openParallelUniverse", op |-> "MPI_Init", guard |-> "all"],
       [fn |-> "openUniverse", op |-> "MPI_Barrier", guard |-> "all"],
       [fn |-> "openUniverse", op |-> "open_streams", guard |-> "root"],
       [fn |-> "main", op |-> "run", guard |-> "all"],
       [fn |-> "closeUniverse", op |-> "MPI_Barrier", guard |-> "all"],
       [fn |-> "closeUniverse", op |-> "close_streams", guard |-> "root"],
       [fn |-> "finalize", op |-> "MPI_Reduce", guard |-> "all"],
       [fn |-> "finalize", op |-> "MPI_Reduce", guard |-> "all"],
       [fn |-> "finalize", op |-> "statistics", guard |-> "root_statistics"],
       [fn |-> "closeParallelUniverse", op |-> "MPI_Barrier", guard |-> "all"],
       [fn |-> "closeParallelUniverse", op |-> "MPI_Reduce", guard |-> "all"],
       [fn |-> "closeParallelUniverse", op |-> "MPI_Finalize", guard |-> "all"] >>

Returned(p) == world.proc[p].at = Len(MainProgram) + 1

\* The statement a process stands at.
Statement(p) == MainProgram[world.proc[p].at]

\* Whether the condition around a statement holds on process p.
GuardHolds(st, p) ==
    CASE st.guard = "all" -> TRUE
      [] st.guard = "root" -> rootProcess(p)
      [] st.guard = "root_statistics" -> world.statistics /\ rootProcess(p)

At(p, op) ==
    /\ ~Returned(p)
    /\ Statement(p).op = op
    /\ GuardHolds(Statement(p), p)

\* Process p has made its k-th collective call, and it is a call of op.
Arrived(q, k, op) ==
    /\ Len(world.proc[q].log) >= k
    /\ world.proc[q].log[k].op = op

AllArrived(p, op) ==
    \A q \in Procs : Arrived(q, Len(world.proc[p].log), op)

RECURSIVE SumOver(_, _)
SumOver(f, S) ==
    IF S = {} THEN 0
    ELSE LET q == CHOOSE x \in S : TRUE IN f[q] + SumOver(f, S \ {q})

InitMain ==
    /\ positions = ZeroForces
    /\ forces = ZeroForces
    /\ energies = ZeroEnergies
    /\ pc = 1
    /\ hist = NoCall
    /\ ref = NoRef
    /\ ord = NoOrd
    /\ bld = NoBuild
    /\ \E gzip \in BOOLEAN, statistics \in BOOLEAN :
          world = [proc |-> [p \in Procs |->
                                [at |-> 1, inside |-> FALSE, log |-> <<>>,
                                 fstreams |-> 0, n_total |-> 0, points |-> 0,
                                 nsum |-> 0, pop |-> [q \in Procs |-> 0]]],
                   gzip |-> gzip, statistics |-> statistics,
                   statistics_txt |-> FALSE]

MainStep(w) ==
    /\ world' = w
    /\ UNCHANGED <<positions, forces, energies, pc, hist, ref, ord, bld>>

Advance(p, rec) ==
    MainStep([world EXCEPT !.proc[p] = [rec EXCEPT !.at = @ + 1, !.inside = FALSE]])

\* A process enters a collective call: the call is noted, the process is
\* inside it.
CallCollective(p, op) ==
    /\ At(p, op)
    /\ ~world.proc[p].inside
    /\ MainStep([world EXCEPT !.proc[p].inside = TRUE,
                              !.proc[p].log = Append(@, [op |-> op, fn |-> Statement(p).fn])])

\* openParallelUniverse (lines 157-177): MPI_Init, rank and size.
openParallelUniverse ==
    \E p \in Procs :
        /\ At(p, "MPI_Init")
        /\ Advance(p, world.proc[p])

\* MPI_Barrier is called (lines 56, 86, 187).
MPI_Barrier_call == \E p \in Procs : CallCollective(p, "MPI_Barrier")

\* MPI_Barrier returns once every process has called it.
MPI_Barrier_return ==
    \E p \in Procs :
        /\ At(p, "MPI_Barrier")
        /\ world.proc[p].inside
        /\ AllArrived(p, "MPI_Barrier")
        /\ Advance(p, world.proc[p])

\* MPI_Reduce is called (lines 114, 123, 191).
MPI_Reduce_call == \E p \in Procs : CallCollective(p, "MPI_Reduce")

\* MPI_Reduce returns on a process that is not the root once its own part
\* is handed over.
MPI_Reduce_return ==
    \E p \in Procs :
        /\ At(p, "MPI_Reduce")
        /\ world.proc[p].inside
        /\ ~rootProcess(p)
        /\ Advance(p, world.proc[p])

\* MPI_Reduce returns on the root once every process has called it: nsum is
\* the sum of n_total_ (line 123), pop the sum of points_per_process_
\* (line 191).
MPI_Reduce_return_root ==
    \E p \in Procs :
        /\ At(p, "MPI_Reduce")
        /\ world.proc[p].inside
        /\ rootProcess(p)
        /\ AllArrived(p, "MPI_Reduce")
        /\ Advance(p, [world.proc[p] EXCEPT
              !.nsum = SumOver([q \in Procs |-> world.proc[q].n_total], Procs),
              !.pop = IF Statement(p).fn = "closeParallelUniverse"
                      THEN [q \in Procs |-> world.proc[q].points]
                      ELSE @])

\* The block of a root-only if is skipped on the other processes (lines 60,
\* 90, 140).
NotRootProcess ==
    \E p \in Procs :
        /\ ~Returned(p)
        /\ ~GuardHolds(Statement(p), p)
        /\ Advance(p, world.proc[p])

\* openUniverse, lines 60-75: the root opens one stream per z point.
OpenStreams ==
    \E p \in Procs :
        /\ At(p, "open_streams")
        /\ Advance(p, [world.proc[p] EXCEPT !.fstreams = NStreams])

\* simulation.initialize() and simulation.run() (lines 223-224): the process
\* relaxes the tip on its share of the points.
Simulation_run ==
    \E p \in Procs : \E n \in 0 .. MaxSteps, k \in 0 .. MaxPoints :
        /\ At(p, "run")
        /\ Advance(p, [world.proc[p] EXCEPT !.n_total = n, !.points = k])

\* closeUniverse, lines 90-99: the root closes its streams.
CloseStreams ==
    \E p \in Procs :
        /\ At(p, "close_streams")
        /\ Advance(p, [world.proc[p] EXCEPT !.fstreams = 0])

\* finalize, lines 140-151: the root writes statistics.txt.
WriteStatistics ==
    \E p \in Procs :
        /\ At(p, "statistics")
        /\ MainStep([world EXCEPT !.statistics_txt = TRUE,
                                  !.proc[p].at = @ + 1])

\* MPI_Finalize (line 204), after which main returns.
MPI_Finalize ==
    \E p \in Procs :
        /\ At(p, "MPI_Finalize")
        /\ MainStep([world EXCEPT
              !.proc[p].at = @ + 1,
              !.proc[p].log = Append(@, [op |-> "MPI_Finalize", fn |-> Statement(p).fn])])

NextMain ==
    \/ openParallelUniverse
    \/ MPI_Barrier_call
    \/ MPI_Barrier_return
    \/ MPI_Reduce_call
    \/ MPI_Reduce_return
    \/ MPI_Reduce_return_root
    \/ NotRootProcess
    \/ OpenStreams
    \/ Simulation_run
    \/ CloseStreams
    \/ WriteStatistics
    \/ MPI_Finalize

\* Every process that can take a step of main takes one.
SpecMain == InitMain /\ [][NextMain]_vars /\ WF_vars(NextMain)

(***************************************************************************)
(* The claim about main, checked under SpecMain.                           *)
(***************************************************************************)
\* The collective operations around the simulation, in order.
CollectiveSequence ==
    << [op |-> "MPI_Barrier", fn |-> "openUniverse"],
       [op |-> "MPI_Barrier", fn |-> "closeUniverse"],
       [op |-> "MPI_Reduce", fn |-> "finalize"],
       [op |-> "MPI_Reduce", fn |-> "finalize"],
       [op |-> "MPI_Barrier", fn |-> "closeParallelUniverse"],
       [op |-> "MPI_Reduce", fn |-> "closeParallelUniverse"],
       [op |-> "MPI_Finalize", fn |-> "closeParallelUniverse"] >>

IsPrefix(a, b) == Len(a) <= Len(b) /\ \A i \in 1 .. Len(a) : a[i] = b[i]

AllReturned == \A p \in Procs : Returned(p)

\* The collective calls a process still has before it at its place in main.
RECURSIVE CallsAhead(_, _)
CallsAhead(p, i) ==
    IF i > Len(MainProgram) THEN 0
    ELSE (IF MainProgram[i].op \in {"MPI_Barrier", "MPI_Reduce", "MPI_Finalize"}
             /\ GuardHolds(MainProgram[i], p)
             /\ ~(i = world.proc[p].at /\ world.proc[p].inside)
          THEN 1 ELSE 0) + CallsAhead(p, i + 1)

SameCollectives ==
    /\ \A p \in Procs : IsPrefix(world.proc[p].log, CollectiveSequence)
    /\ \A p \in Procs : Returned(p) => world.proc[p].log = CollectiveSequence
    /\ \A p, q \in Procs :
          world.proc[p].inside =>
              Len(world.proc[q].log) + CallsAhead(q, world.proc[q].at)
                  >= Len(world.proc[p].log)

\* C12: every process, root or not, enters the same sequence of collective
\* operations (barrier of openUniverse, barrier of closeUniverse, the two
\* reductions of finalize, barrier and reduction of closeParallelUniverse,
\* MPI_Finalize); no process is inside a collective that another process
\* will not enter, and every process returns from main.
C12_SameCollectivesOnEveryProcess == []SameCollectives /\ <>AllReturned

\* All processes have returned, each through the seven collectives; the
\* root alone opened and closed streams and wrote statistics.txt, and holds
\* the sums of what the others counted.
C12_Witness ==
    /\ AllReturned
    /\ \A p \in Procs : world.proc[p].log = CollectiveSequence
    /\ world.statistics /\ world.statistics_txt
    /\ world.proc[root_process].nsum = NProcs * MaxSteps
    /\ \A q \in Procs : world.proc[root_process].pop[q] = MaxPoints
====
